---------------------------- MODULE Spec2Model ----------------------------
(***************************************************************************)
(* Tic-Tac-Toe (src/tic_tac_toe_frontend/src/App.js): the App component's  *)
(* game session (React state, event handlers, effects, the timer of the    *)
(* automated move) and the move engine (calculateWinner, getAvailableMoves,*)
(* evaluate, minimax, findBestMove).                                        *)
(*                                                                         *)
(* A board is a function 0..8 -> {null, X, O}, as the 9-element JS array.  *)
(* The engine writes into the array it is given (squares[move] = ...), so  *)
(* minimax and findBestMove return their result together with the          *)
(* array's contents at return.                                             *)
(***************************************************************************)
EXTENDS Integers, Sequences, FiniteSets, TLC

VARIABLES
  mode,      \* useState(MODES.PVP)
  board,     \* useState(EMPTY_BOARD)
  xIsNext,   \* useState(true)
  winner,    \* useState(null): X | O | draw | null
  timeout,   \* the pending setTimeout of the automated move, with what its callback closes over
  pending,   \* the passive effects of the last commit that have not run yet
  event,     \* the last handler, callback or effect flush that ran
  call       \* a direct call of an engine function: arguments and result

vars == <<mode, board, xIsNext, winner, timeout, pending, event, call>>

-----------------------------------------------------------------------------
(* Game constants and helpers *)

null == "null"
X == "X"
O == "O"
draw == "draw"
PLAYERS == {X, O}
PVP == "pvp"
AI == "ai"
MODES == {PVP, AI}
Cells == 0..8
EMPTY_BOARD == [i \in Cells |-> null]

\* JS Infinity: the start value of best / bestVal, beyond every score in -10..10.
Infinity == 1000
\* findBestMove's `return null` (a move is a number, so null gets a number no index has).
NullMove == -1

\* Math.sign taken as 1 for every score
SignAlwaysOne(x) == 1
Sign(x) == IF x > 0 THEN 1 ELSE IF x < 0 THEN -1 ELSE 0

lines ==
  << <<0, 1, 2>>, <<3, 4, 5>>, <<6, 7, 8>>,
     <<0, 3, 6>>, <<1, 4, 7>>, <<2, 5, 8>>,
     <<0, 4, 8>>, <<2, 4, 6>> >>

\* lines with a slip in the last diagonal (2-4-7 for 2-4-6)
linesSlip ==
  << <<0, 1, 2>>, <<3, 4, 5>>, <<6, 7, 8>>,
     <<0, 3, 6>>, <<1, 4, 7>>, <<2, 5, 8>>,
     <<0, 4, 8>>, <<2, 4, 7>> >>

\* the for-loop of calculateWinner from line k on: the first line holding three
\* equal non-null marks decides
RECURSIVE winnerFrom(_, _, _)
winnerFrom(squares, ls, k) ==
  IF k > 8 THEN null
  ELSE IF /\ squares[ls[k][1]] # null
          /\ squares[ls[k][1]] = squares[ls[k][2]]
          /\ squares[ls[k][1]] = squares[ls[k][3]]
       THEN squares[ls[k][1]]
       ELSE winnerFrom(squares, ls, k + 1)

calculateWinnerSlip(squares) == winnerFrom(squares, linesSlip, 1)

\* calculateWinner without the comparison of the third cell
RECURSIVE winnerFromTwoEqual(_, _)
winnerFromTwoEqual(squares, k) ==
  IF k > 8 THEN null
  ELSE IF /\ squares[lines[k][1]] # null
          /\ squares[lines[k][1]] = squares[lines[k][2]]
       THEN squares[lines[k][1]]
       ELSE winnerFromTwoEqual(squares, k + 1)

calculateWinnerTwoEqual(squares) == winnerFromTwoEqual(squares, 1)

calculateWinner(squares) == winnerFrom(squares, lines, 1)

RECURSIVE movesFrom(_, _)
movesFrom(squares, i) ==
  IF i >= 9 THEN <<>>
  ELSE IF squares[i] = null THEN <<i>> \o movesFrom(squares, i + 1)
       ELSE movesFrom(squares, i + 1)

getAvailableMoves(squares) == movesFrom(squares, 0)

\* opponentOf with the two results the same way round as the test
opponentOfSame(player) == IF player = X THEN X ELSE O

opponentOf(player) == IF player = X THEN O ELSE X

evaluate(squares, aiPlayer) ==
  LET w == calculateWinner(squares)
  IN IF w = aiPlayer THEN 10
     ELSE IF w = opponentOf(aiPlayer) THEN -10
     ELSE 0

\* minimax returns <<value, squares at return>>
RECURSIVE minimax(_, _, _, _)
RECURSIVE minimaxLoop(_, _, _, _, _, _, _)
\* the for-loop of either branch without squares[move] = null after the recursive call
RECURSIVE minimaxLoopNoRestore(_, _, _, _, _, _, _)
minimaxLoopNoRestore(squares, depth, isMax, aiPlayer, moves, k, best) ==
  IF k > Len(moves) THEN <<best, squares>>
  ELSE LET r == minimax([squares EXCEPT ![moves[k]] =
                           IF isMax THEN aiPlayer ELSE opponentOf(aiPlayer)],
                        depth + 1, ~isMax, aiPlayer)
           val == r[1]
       IN IF (isMax /\ val > best) \/ (~isMax /\ val < best)
          THEN minimaxLoopNoRestore(r[2], depth, isMax, aiPlayer, moves, k + 1, val)
          ELSE minimaxLoopNoRestore(r[2], depth, isMax, aiPlayer, moves, k + 1, best)

\* the for-loop of either branch from the k-th available move on; Math.max
\* (Math.min) replaces best by val exactly when val is greater (smaller)
minimaxLoop(squares, depth, isMax, aiPlayer, moves, k, best) ==
  IF k > Len(moves) THEN <<best, squares>>
  ELSE LET r == minimax([squares EXCEPT ![moves[k]] =
                           IF isMax THEN aiPlayer ELSE opponentOf(aiPlayer)],
                        depth + 1, ~isMax, aiPlayer)
           val == r[1]
           undone == [r[2] EXCEPT ![moves[k]] = null]
       IN IF (isMax /\ val > best) \/ (~isMax /\ val < best)
          THEN minimaxLoop(undone, depth, isMax, aiPlayer, moves, k + 1, val)
          ELSE minimaxLoop(undone, depth, isMax, aiPlayer, moves, k + 1, best)

minimax(squares, depth, isMax, aiPlayer) ==
  LET score == evaluate(squares, aiPlayer)
      moves == getAvailableMoves(squares)
  IN IF score = 10 \/ score = -10 THEN <<score - depth * Sign(score), squares>>
     ELSE IF Len(moves) = 0 THEN <<0, squares>>
     ELSE minimaxLoop(squares, depth, isMax, aiPlayer, moves, 1,
                      IF isMax THEN -Infinity ELSE Infinity)

\* findBestMove returns [move, squares at return]
\* the "Win" loop from the k-th available move on; NullMove when it runs out
RECURSIVE winLoop(_, _, _, _)
\* the "Win" loop run from the last available move down to the k-th
RECURSIVE winLoopDescending(_, _, _, _)
winLoopDescending(squares, aiPlayer, avail, k) ==
  IF k > Len(avail) THEN [move |-> NullMove, squares |-> squares]
  ELSE LET m == avail[Len(avail) + 1 - k]
           s1 == [squares EXCEPT ![m] = aiPlayer]
       IN IF calculateWinner(s1) = aiPlayer
          THEN [move |-> m, squares |-> [s1 EXCEPT ![m] = null]]
          ELSE winLoopDescending([s1 EXCEPT ![m] = null], aiPlayer, avail, k + 1)

winLoop(squares, aiPlayer, avail, k) ==
  IF k > Len(avail) THEN [move |-> NullMove, squares |-> squares]
  ELSE LET s1 == [squares EXCEPT ![avail[k]] = aiPlayer]
       IN IF calculateWinner(s1) = aiPlayer
          THEN [move |-> avail[k], squares |-> [s1 EXCEPT ![avail[k]] = null]]
          ELSE winLoop([s1 EXCEPT ![avail[k]] = null], aiPlayer, avail, k + 1)

\* the "Block" loop
RECURSIVE blockLoop(_, _, _, _)
\* the "Block" loop trying the automated player's own mark instead of the opponent's
RECURSIVE blockLoopOwnMark(_, _, _, _)
blockLoopOwnMark(squares, aiPlayer, avail, k) ==
  IF k > Len(avail) THEN [move |-> NullMove, squares |-> squares]
  ELSE LET s1 == [squares EXCEPT ![avail[k]] = aiPlayer]
       IN IF calculateWinner(s1) = aiPlayer
          THEN [move |-> avail[k], squares |-> [s1 EXCEPT ![avail[k]] = null]]
          ELSE blockLoopOwnMark([s1 EXCEPT ![avail[k]] = null], aiPlayer, avail, k + 1)

blockLoop(squares, aiPlayer, avail, k) ==
  IF k > Len(avail) THEN [move |-> NullMove, squares |-> squares]
  ELSE LET opp == opponentOf(aiPlayer)
           s1 == [squares EXCEPT ![avail[k]] = opp]
       IN IF calculateWinner(s1) = opp
          THEN [move |-> avail[k], squares |-> [s1 EXCEPT ![avail[k]] = null]]
          ELSE blockLoop([s1 EXCEPT ![avail[k]] = null], aiPlayer, avail, k + 1)

\* the "Full minimax" loop
RECURSIVE searchLoop(_, _, _, _, _, _)
RECURSIVE searchLoopLastBest(_, _, _, _, _, _)
\* the "Full minimax" loop taking a later move of equal value (moveVal >= bestVal)
searchLoopLastBest(squares, aiPlayer, avail, k, bestVal, bestMove) ==
  IF k > Len(avail) THEN [move |-> bestMove, squares |-> squares]
  ELSE LET r == minimax([squares EXCEPT ![avail[k]] = aiPlayer], 0, FALSE, aiPlayer)
           s2 == [r[2] EXCEPT ![avail[k]] = null]
       IN IF r[1] >= bestVal
          THEN searchLoopLastBest(s2, aiPlayer, avail, k + 1, r[1], avail[k])
          ELSE searchLoopLastBest(s2, aiPlayer, avail, k + 1, bestVal, bestMove)

searchLoop(squares, aiPlayer, avail, k, bestVal, bestMove) ==
  IF k > Len(avail) THEN [move |-> bestMove, squares |-> squares]
  ELSE LET r == minimax([squares EXCEPT ![avail[k]] = aiPlayer], 0, FALSE, aiPlayer)
           s2 == [r[2] EXCEPT ![avail[k]] = null]
       IN IF r[1] > bestVal
          THEN searchLoop(s2, aiPlayer, avail, k + 1, r[1], avail[k])
          ELSE searchLoop(s2, aiPlayer, avail, k + 1, bestVal, bestMove)

\* findBestMove with a "Block" loop over every index, empty or not
findBestMoveBlockAnyCell(squares, aiPlayer) ==
  LET avail == getAvailableMoves(squares)
  IN IF Len(avail) = 0 THEN [move |-> NullMove, squares |-> squares]
     ELSE LET w == winLoop(squares, aiPlayer, avail, 1)
          IN IF w.move # NullMove THEN w
             ELSE LET b == blockLoop(w.squares, aiPlayer, <<0, 1, 2, 3, 4, 5, 6, 7, 8>>, 1)
                  IN IF b.move # NullMove THEN b
                     ELSE searchLoop(b.squares, aiPlayer, avail, 1, -Infinity, avail[1])

\* findBestMove with the "Block" loop before the "Win" loop
findBestMoveBlockFirst(squares, aiPlayer) ==
  LET avail == getAvailableMoves(squares)
  IN IF Len(avail) = 0 THEN [move |-> NullMove, squares |-> squares]
     ELSE LET b == blockLoop(squares, aiPlayer, avail, 1)
          IN IF b.move # NullMove THEN b
             ELSE LET w == winLoop(b.squares, aiPlayer, avail, 1)
                  IN IF w.move # NullMove THEN w
                     ELSE searchLoop(w.squares, aiPlayer, avail, 1, -Infinity, avail[1])

\* findBestMove returning its first bestMove, avail[0], without the loops
findBestMoveFirstAvailable(squares, aiPlayer) ==
  LET avail == getAvailableMoves(squares)
  IN IF Len(avail) = 0 THEN [move |-> NullMove, squares |-> squares]
     ELSE [move |-> avail[1], squares |-> squares]

findBestMove(squares, aiPlayer) ==
  LET avail == getAvailableMoves(squares)
  IN IF Len(avail) = 0 THEN [move |-> NullMove, squares |-> squares]
     ELSE LET w == winLoop(squares, aiPlayer, avail, 1)
          IN IF w.move # NullMove THEN w
             ELSE LET b == blockLoop(w.squares, aiPlayer, avail, 1)
                  IN IF b.move # NullMove THEN b
                     ELSE searchLoop(b.squares, aiPlayer, avail, 1, -Infinity, avail[1])

-----------------------------------------------------------------------------
(* The App component: state, handlers, effects.                            *)
(*                                                                         *)
(* A handler or timer callback runs to completion, its state updates are   *)
(* batched and committed as one render, and the effects whose dependencies *)
(* changed in that commit are left in `pending`. FlushEffects runs them:   *)
(* the cleanups, then the effect bodies in the order of the source, then   *)
(* the commit of what they set. Handlers and the timer callback run only   *)
(* between such cycles (pending = {}): React flushes the effects of a      *)
(* commit before it handles another update, and the 350 ms of the timer    *)
(* outlast a render cycle. A handler sees the values of the last commit.   *)
(***************************************************************************)

\* Derived values of a render
currentPlayer == IF xIsNext THEN X ELSE O
gameOver == winner # null

NoTimeout == [set |-> FALSE]

\* no direct call of an engine function
Idle == [fn |-> "none"]

\* what the handlers and callbacks of the current render close over
Closure == [board |-> board, gameOver |-> gameOver, currentPlayer |-> currentPlayer]

\* the Board's disabled prop, and the disabled prop of Square idx
BoardDisabled == gameOver \/ (mode = AI /\ currentPlayer = O)
SquareDisabled(idx) == BoardDisabled \/ board[idx] # null

\* the dependency arrays of the two game effects
WinnerDeps(b) == <<b>>
AiDeps(m, x, b, w) == <<m, IF x THEN X ELSE O, b, w # null>>

\* the effects a commit of (m, b, x, w) over the current state schedules
Scheduled(m, b, x, w) ==
  (IF WinnerDeps(b) # WinnerDeps(board) THEN {"winner"} ELSE {})
    \cup (IF AiDeps(m, x, b, w) # AiDeps(mode, xIsNext, board, winner) THEN {"ai"} ELSE {})

\* handleMove without the test of gameOver
handleMoveIgnoresGameOver(cl, index, prevBoard, prevXIsNext) ==
  IF cl.board[index] # null
  THEN [accepted |-> FALSE, board |-> prevBoard, xIsNext |-> prevXIsNext]
  ELSE [accepted |-> TRUE,
        board |-> [prevBoard EXCEPT ![index] = cl.currentPlayer],
        xIsNext |-> ~prevXIsNext]

\* handleMove without setXIsNext
handleMoveKeepsTurn(cl, index, prevBoard, prevXIsNext) ==
  IF cl.gameOver \/ cl.board[index] # null
  THEN [accepted |-> FALSE, board |-> prevBoard, xIsNext |-> prevXIsNext]
  ELSE [accepted |-> TRUE,
        board |-> [prevBoard EXCEPT ![index] = cl.currentPlayer],
        xIsNext |-> prevXIsNext]

\* handleMove without the test of the cell
handleMoveIgnoresOccupied(cl, index, prevBoard, prevXIsNext) ==
  IF cl.gameOver
  THEN [accepted |-> FALSE, board |-> prevBoard, xIsNext |-> prevXIsNext]
  ELSE [accepted |-> TRUE,
        board |-> [prevBoard EXCEPT ![index] = cl.currentPlayer],
        xIsNext |-> ~prevXIsNext]

\* handleMove(index) of the render with closure cl, on the state the updaters
\* of setBoard and setXIsNext receive
handleMove(cl, index, prevBoard, prevXIsNext) ==
  IF cl.gameOver \/ cl.board[index] # null
  THEN [accepted |-> FALSE, board |-> prevBoard, xIsNext |-> prevXIsNext]
  ELSE [accepted |-> TRUE,
        board |-> [prevBoard EXCEPT ![index] = cl.currentPlayer],
        xIsNext |-> ~prevXIsNext]

\* resetGame without setXIsNext(true)
resetGameKeepsTurn == [board |-> EMPTY_BOARD, xIsNext |-> xIsNext, winner |-> null]
\* resetGame without setWinner(null)
resetGameKeepsWinner == [board |-> EMPTY_BOARD, xIsNext |-> TRUE, winner |-> winner]

resetGame == [board |-> EMPTY_BOARD, xIsNext |-> TRUE, winner |-> null]

\* the winner effect testing for a full board before it looks for a winner
winnerEffectDrawFirst(squares) ==
  IF \A i \in Cells : squares[i] # null THEN [set |-> TRUE, value |-> draw]
  ELSE LET w == calculateWinner(squares)
       IN IF w # null THEN [set |-> TRUE, value |-> w] ELSE [set |-> FALSE]

\* "Check winner or draw whenever board changes": the setWinner call, if any
winnerEffect(squares) ==
  LET w == calculateWinner(squares)
  IN IF w # null THEN [set |-> TRUE, value |-> w]
     ELSE IF \A i \in Cells : squares[i] # null THEN [set |-> TRUE, value |-> draw]
     ELSE [set |-> FALSE]

\* the AI effect testing for the other mode
aiEffectInPvp ==
  IF mode # PVP \/ gameOver THEN NoTimeout
  ELSE IF currentPlayer # O THEN NoTimeout
  ELSE [set |-> TRUE, aiPlaysAs |-> O, closure |-> Closure]

\* the AI effect without its cleanup (no clearTimeout)
aiEffectKeepsTimer ==
  IF mode # AI \/ gameOver THEN timeout
  ELSE IF currentPlayer # O THEN timeout
  ELSE [set |-> TRUE, aiPlaysAs |-> O, closure |-> Closure]

\* "AI move when it's AI mode and it's O's turn and game not over": the
\* timeout the effect leaves
aiEffect ==
  IF mode # AI \/ gameOver THEN NoTimeout
  ELSE IF currentPlayer # O THEN NoTimeout
  ELSE [set |-> TRUE, aiPlaysAs |-> O, closure |-> Closure]

Init ==
  /\ mode = PVP
  /\ board = EMPTY_BOARD
  /\ xIsNext = TRUE
  /\ winner = null
  /\ timeout = NoTimeout
  /\ pending = {}
  /\ event = [op |-> "init"]
  /\ call = Idle

\* the commit of a handler's batched updates
Commit(m, b, x, w) ==
  /\ mode' = m
  /\ board' = b
  /\ xIsNext' = x
  /\ winner' = w
  /\ pending' = Scheduled(m, b, x, w)

\* a click on Square index, which the browser delivers when the button is enabled
Click(index) ==
  /\ pending = {}
  /\ ~SquareDisabled(index)
  /\ LET r == handleMove(Closure, index, board, xIsNext)
     IN /\ Commit(mode, r.board, r.xIsNext, winner)
        /\ event' = [op |-> "handleMove", index |-> index, accepted |-> r.accepted,
                     by |-> "click"]
  /\ UNCHANGED <<timeout, call>>

\* a click on Restart
ResetGame ==
  /\ pending = {}
  /\ Commit(mode, resetGame.board, resetGame.xIsNext, resetGame.winner)
  /\ event' = [op |-> "resetGame", from |-> winner]
  /\ UNCHANGED <<timeout, call>>

\* a click on one of the two mode buttons
HandleModeChange(newMode) ==
  /\ pending = {}
  /\ Commit(newMode, resetGame.board, resetGame.xIsNext, resetGame.winner)
  /\ event' = [op |-> "handleModeChange", newMode |-> newMode, from |-> winner]
  /\ UNCHANGED <<timeout, call>>

\* the setTimeout callback of the AI effect. findBestMove works in the array
\* the callback closes over, which is the array of the board state.
TimerFire ==
  /\ pending = {}
  /\ timeout.set
  /\ \E found \in {findBestMove(timeout.closure.board, timeout.aiPlaysAs)} :
       \E prev \in {IF timeout.closure.board = board THEN found.squares ELSE board} :
         \E r \in {IF found.move # NullMove
                    THEN handleMove(timeout.closure, found.move, prev, xIsNext)
                    ELSE [accepted |-> FALSE, board |-> prev, xIsNext |-> xIsNext]} :
           /\ Commit(mode, r.board, r.xIsNext, winner)
           /\ event' = [op |-> "handleMove", index |-> found.move,
                        accepted |-> r.accepted, by |-> "timer"]
  /\ timeout' = NoTimeout
  /\ UNCHANGED call

\* the passive effects of the last commit: the cleanup of the AI effect, the
\* winner effect, the AI effect, and the commit of the winner effect's setWinner
FlushEffects ==
  /\ pending # {}
  /\ LET w == IF "winner" \in pending THEN winnerEffect(board) ELSE [set |-> FALSE]
         newWinner == IF w.set THEN w.value ELSE winner
     IN /\ winner' = newWinner
        /\ pending' = Scheduled(mode, board, xIsNext, newWinner)
  /\ timeout' = IF "ai" \in pending THEN aiEffect ELSE timeout
  /\ event' = [op |-> "effects"]
  /\ UNCHANGED <<mode, board, xIsNext, call>>

Next ==
  \/ \E index \in Cells : Click(index)
  \/ ResetGame
  \/ \E newMode \in MODES : HandleModeChange(newMode)
  \/ TimerFire
  \/ FlushEffects

Spec == Init /\ [][Next]_vars

\* TimerFire can run: ENABLED <<TimerFire>>_vars
TimerEnabled == pending = {} /\ timeout.set
\* a step of TimerFire, known by what it leaves
TimerStep ==
  /\ TimerEnabled
  /\ event'.op = "handleMove" /\ event'.by = "timer"
  /\ timeout' = NoTimeout

\* the session with its scheduling: the effects of a commit do run
\* (WF_vars(FlushEffects)), and the setTimeout callback does fire unless
\* clearTimeout comes first (WF_vars(TimerFire), written out)
SpecLive ==
  /\ Init /\ [][Next]_vars
  /\ WF_vars(FlushEffects)
  /\ ([]<>~TimerEnabled \/ []<><<TimerStep>>_vars)

\* handleMove(index) invoked whatever the Board disables
CallHandleMove(index) ==
  /\ pending = {}
  /\ LET r == handleMove(Closure, index, board, xIsNext)
     IN /\ Commit(mode, r.board, r.xIsNext, winner)
        /\ event' = [op |-> "handleMove", index |-> index, accepted |-> r.accepted,
                     by |-> "call"]
  /\ UNCHANGED <<timeout, call>>

NextApi ==
  \/ Next
  \/ \E index \in Cells : CallHandleMove(index)

SpecApi == Init /\ [][NextApi]_vars

-----------------------------------------------------------------------------
(* Direct calls of the engine's functions on boards drawn from bounded sets *)

\* findBestMove is called on the boards with at most MaxEmpty empty cells and on
\* the two example boards
MaxEmpty == 5

AllBoards == [Cells -> {null, X, O}]
NumEmpty(b) == Cardinality({i \in Cells : b[i] = null})

\* the two boards the specification gives as examples (A = X, B = O)
ExampleWin == [i \in Cells |-> IF i \in {0, 1} THEN X ELSE IF i \in {3, 4} THEN O ELSE null]
ExampleBlock == [i \in Cells |-> IF i \in {0, 1} THEN O ELSE IF i = 4 THEN X ELSE null]

SessionIdle ==
  /\ mode = PVP
  /\ board = EMPTY_BOARD
  /\ xIsNext = TRUE
  /\ winner = null
  /\ timeout = NoTimeout
  /\ pending = {}
  /\ event = [op |-> "init"]

InitFn ==
  /\ SessionIdle
  /\ \E b \in AllBoards, p \in PLAYERS :
       call = [fn |-> "args", squares |-> b, aiPlayer |-> p]

CallCalculateWinner ==
  /\ call.fn = "args"
  /\ call' = [fn |-> "calculateWinner", squares |-> call.squares,
              aiPlayer |-> call.aiPlayer, ret |-> calculateWinner(call.squares)]
  /\ UNCHANGED <<mode, board, xIsNext, winner, timeout, pending, event>>

CallFindBestMove ==
  /\ call.fn = "args"
  /\ NumEmpty(call.squares) <= MaxEmpty \/ call.squares \in {ExampleWin, ExampleBlock}
  /\ LET r == findBestMove(call.squares, call.aiPlayer)
     IN call' = [fn |-> "findBestMove", squares |-> call.squares,
                 aiPlayer |-> call.aiPlayer, ret |-> r.move, after |-> r.squares]
  /\ UNCHANGED <<mode, board, xIsNext, winner, timeout, pending, event>>

NextFn == CallCalculateWinner \/ CallFindBestMove

SpecFn == InitFn /\ [][NextFn]_vars

-----------------------------------------------------------------------------
(* The automated player against itself, and direct calls of minimax *)

\* besides the empty board, play and search start from the positions of a game
\* in progress with at most MaxStartEmpty empty cells
MaxStartEmpty == 3

Count(b, m) == Cardinality({i \in Cells : b[i] = m})
\* the mark to move on a position of a game X began
ToMove(b) == IF Count(b, X) = Count(b, O) THEN X ELSE O
\* positions of a game in progress: marks placed in turn, X first, nobody has won
InPlay(b) ==
  /\ Count(b, X) - Count(b, O) \in {0, 1}
  /\ calculateWinner(b) = null
  /\ NumEmpty(b) > 0
StartBoards ==
  {EMPTY_BOARD} \cup {b \in AllBoards : NumEmpty(b) <= MaxStartEmpty /\ InPlay(b)}

InitSelfPlay ==
  /\ SessionIdle
  /\ \E b \in StartBoards :
       call = [fn |-> "selfPlay", start |-> b, squares |-> b, toMove |-> ToMove(b),
               last |-> NullMove]

\* the side to move plays the cell findBestMove returns for it
PlayBest ==
  /\ call.fn = "selfPlay"
  /\ calculateWinner(call.squares) = null
  /\ \E found \in {findBestMove(call.squares, call.toMove)} :
       /\ found.move # NullMove
       /\ call' = [call EXCEPT !.squares = [found.squares EXCEPT ![found.move] = call.toMove],
                               !.toMove = opponentOf(call.toMove),
                               !.last = found.move]
  /\ UNCHANGED <<mode, board, xIsNext, winner, timeout, pending, event>>

NextSelfPlay == PlayBest

SpecSelfPlay == InitSelfPlay /\ [][NextSelfPlay]_vars

InitSearch ==
  /\ SessionIdle
  /\ \E b \in StartBoards, p \in PLAYERS, isMax \in BOOLEAN :
       /\ b = EMPTY_BOARD => isMax
       /\ call = [fn |-> "args", squares |-> b, depth |-> 0, isMax |-> isMax,
                  aiPlayer |-> p]

CallMinimax ==
  /\ call.fn = "args"
  /\ \E r \in {minimax(call.squares, call.depth, call.isMax, call.aiPlayer)} :
       call' = [fn |-> "minimax", squares |-> call.squares, depth |-> call.depth,
                isMax |-> call.isMax, aiPlayer |-> call.aiPlayer,
                ret |-> r[1], after |-> r[2]]
  /\ UNCHANGED <<mode, board, xIsNext, winner, timeout, pending, event>>

NextSearch == CallMinimax \/ CallFindBestMove

SpecSearch == InitSearch /\ [][NextSearch]_vars

-----------------------------------------------------------------------------
(* findBestMove next to the value minimax gives each empty cell *)

\* the positions of a game in progress with at most MaxRatedEmpty empty cells,
\* for the side to move
MaxRatedEmpty == 6

RatedBoards == {b \in AllBoards : NumEmpty(b) <= MaxRatedEmpty /\ InPlay(b)}

InitRate ==
  /\ SessionIdle
  /\ \E b \in RatedBoards :
       call = [fn |-> "args", squares |-> b, aiPlayer |-> ToMove(b)]

\* moveVal of the "Full minimax" loop for move on squares
moveVal(squares, move, aiPlayer) ==
  minimax([squares EXCEPT ![move] = aiPlayer], 0, FALSE, aiPlayer)[1]

\* findBestMove(squares, aiPlayer), and moveVal for every available move
CallRateMoves ==
  /\ call.fn = "args"
  /\ \E found \in {findBestMove(call.squares, call.aiPlayer)} :
       \E vals \in {[c \in {d \in Cells : call.squares[d] = null}
                      |-> moveVal(call.squares, c, call.aiPlayer)]} :
         call' = [fn |-> "rateMoves", squares |-> call.squares,
                  aiPlayer |-> call.aiPlayer, ret |-> found.move, vals |-> vals]
  /\ UNCHANGED <<mode, board, xIsNext, winner, timeout, pending, event>>

NextRate == CallRateMoves

SpecRate == InitRate /\ [][NextRate]_vars

-----------------------------------------------------------------------------
(* The calls of minimax: those findBestMove makes, followed down the
   recursion, and direct calls on finished boards at any depth *)

MaxScoredEmpty == 4
MaxDepth == 9

\* boards with the marks placed in turn, X first
TurnBoards == {b \in AllBoards : Count(b, X) - Count(b, O) \in {0, 1}}
\* boards on which minimax returns without searching
FinishedBoards == {b \in TurnBoards : calculateWinner(b) # null \/ NumEmpty(b) = 0}

InitScore ==
  /\ SessionIdle
  /\ \/ \E b \in {c \in TurnBoards : InPlay(c)} :
          call = [fn |-> "args", squares |-> b, aiPlayer |-> ToMove(b)]
     \/ \E b \in FinishedBoards, d \in 0..MaxDepth, isMax \in BOOLEAN, p \in PLAYERS :
          call = [fn |-> "frame", from |-> "direct", squares |-> b, depth |-> d,
                  isMax |-> isMax, aiPlayer |-> p]

\* the call of minimax the "Full minimax" loop makes for its k-th move; the
\* loop is reached when neither the "Win" nor the "Block" loop returned
SearchMove(k) ==
  /\ call.fn = "args"
  /\ LET avail == getAvailableMoves(call.squares)
     IN /\ k \in 1..Len(avail)
        /\ winLoop(call.squares, call.aiPlayer, avail, 1).move = NullMove
        /\ blockLoop(call.squares, call.aiPlayer, avail, 1).move = NullMove
        /\ call' = [fn |-> "frame", from |-> "findBestMove",
                    squares |-> [call.squares EXCEPT ![avail[k]] = call.aiPlayer],
                    depth |-> 0, isMax |-> FALSE, aiPlayer |-> call.aiPlayer]
  /\ UNCHANGED <<mode, board, xIsNext, winner, timeout, pending, event>>

\* the recursive call minimax makes for its k-th move
Descend(k) ==
  /\ call.fn = "frame"
  /\ LET moves == getAvailableMoves(call.squares)
         score == evaluate(call.squares, call.aiPlayer)
     IN /\ score # 10 /\ score # -10
        /\ k \in 1..Len(moves)
        /\ call' = [call EXCEPT
                      !.squares = [call.squares EXCEPT ![moves[k]] =
                                     IF call.isMax THEN call.aiPlayer
                                     ELSE opponentOf(call.aiPlayer)],
                      !.depth = call.depth + 1,
                      !.isMax = ~call.isMax]
  /\ UNCHANGED <<mode, board, xIsNext, winner, timeout, pending, event>>

\* the board and depth at which the value minimax returns was scored: from a
\* board it searches, minimax keeps the value of the first move that reaches
\* the best value (Math.max and Math.min keep best on a tie)
RECURSIVE searchedLine(_, _, _, _)
searchedLine(squares, depth, isMax, aiPlayer) ==
  LET score == evaluate(squares, aiPlayer)
      moves == getAvailableMoves(squares)
  IN IF score = 10 \/ score = -10 \/ Len(moves) = 0
     THEN [squares |-> squares, depth |-> depth]
     ELSE LET mark == IF isMax THEN aiPlayer ELSE opponentOf(aiPlayer)
              best == minimax(squares, depth, isMax, aiPlayer)[1]
              child(k) == [squares EXCEPT ![moves[k]] = mark]
              first == CHOOSE k \in 1..Len(moves) :
                         /\ minimax(child(k), depth + 1, ~isMax, aiPlayer)[1] = best
                         /\ \A j \in 1..(k - 1) :
                              minimax(child(j), depth + 1, ~isMax, aiPlayer)[1] # best
          IN searchedLine(child(first), depth + 1, ~isMax, aiPlayer)

\* minimax(squares, depth, isMax, aiPlayer) returns
Score ==
  /\ call.fn = "frame"
  /\ NumEmpty(call.squares) <= MaxScoredEmpty
  /\ \E r \in {minimax(call.squares, call.depth, call.isMax, call.aiPlayer)} :
       \E l \in {searchedLine(call.squares, call.depth, call.isMax, call.aiPlayer)} :
         call' = [fn |-> "score", from |-> call.from, squares |-> call.squares,
                  depth |-> call.depth, isMax |-> call.isMax,
                  aiPlayer |-> call.aiPlayer, ret |-> r[1],
                  leaf |-> l.squares, leafDepth |-> l.depth]
  /\ UNCHANGED <<mode, board, xIsNext, winner, timeout, pending, event>>

NextScore ==
  \/ \E k \in 1..9 : SearchMove(k)
  \/ \E k \in 1..9 : Descend(k)
  \/ Score

SpecScore == InitScore /\ [][NextScore]_vars

-----------------------------------------------------------------------------
(* Claims about the engine's functions, under SpecFn *)

LineSet == {{0, 1, 2}, {3, 4, 5}, {6, 7, 8}, {0, 3, 6}, {1, 4, 7}, {2, 5, 8},
            {0, 4, 8}, {2, 4, 6}}
\* mark m holds all three cells of some triple of b
HasThree(b, m) == \E l \in LineSet : \A c \in l : b[c] = m
NoThree(b) == ~HasThree(b, X) /\ ~HasThree(b, O)
\* the empty cells of b that complete a triple for m
WinningCells(b, m) ==
  {c \in Cells : b[c] = null /\ \E l \in LineSet : c \in l /\ \A d \in l \ {c} : b[d] = m}
Lowest(S) == CHOOSE c \in S : \A d \in S : c <= d
Called(f) == call.fn = f

\* C1: findBestMove returns null exactly when the board has no empty cell, and
\* otherwise an index in 0..8 whose cell is empty on the board it was given.
C1_MoveIsNullOrEmptyCell ==
  Called("findBestMove") =>
    /\ (call.ret = NullMove) <=> (NumEmpty(call.squares) = 0)
    /\ call.ret # NullMove => call.ret \in Cells /\ call.squares[call.ret] = null

C1_Witness ==
  /\ Called("findBestMove")
  /\ NumEmpty(call.squares) = 3
  /\ WinningCells(call.squares, X) = {} /\ WinningCells(call.squares, O) = {}
  /\ call.ret \in Cells /\ call.squares[call.ret] = null

\* C2: on a board with no three-in-a-row where aiPlayer has a cell completing a
\* triple, findBestMove returns the lowest such cell, whatever the opponent has.
C2_ImmediateWinTaken ==
  (/\ Called("findBestMove")
   /\ NoThree(call.squares)
   /\ WinningCells(call.squares, call.aiPlayer) # {})
  => call.ret = Lowest(WinningCells(call.squares, call.aiPlayer))

C2_Witness ==
  /\ Called("findBestMove")
  /\ call.squares = ExampleWin /\ call.aiPlayer = X
  /\ WinningCells(call.squares, O) # {}
  /\ call.ret = 2

\* C3: on a board with no three-in-a-row where aiPlayer has no completing cell
\* and the opponent has one, findBestMove returns the opponent's lowest such cell.
C3_ImmediateBlockTaken ==
  (/\ Called("findBestMove")
   /\ NoThree(call.squares)
   /\ WinningCells(call.squares, call.aiPlayer) = {}
   /\ WinningCells(call.squares, opponentOf(call.aiPlayer)) # {})
  => call.ret = Lowest(WinningCells(call.squares, opponentOf(call.aiPlayer)))

C3_Witness ==
  /\ Called("findBestMove")
  /\ call.squares = ExampleBlock /\ call.aiPlayer = X
  /\ WinningCells(call.squares, X) = {}
  /\ call.ret = 2

\* C7: on a board where at most one mark has a three-in-a-row, calculateWinner
\* returns M exactly when some triple holds M three times, and null exactly
\* when no triple holds three equal marks.
C7_WinnerIsTheMarkWithThree ==
  (Called("calculateWinner") /\ ~(HasThree(call.squares, X) /\ HasThree(call.squares, O)))
  => /\ \A m \in PLAYERS : (call.ret = m) <=> HasThree(call.squares, m)
     /\ (call.ret = null) <=> NoThree(call.squares)

C7_Witness ==
  /\ Called("calculateWinner")
  /\ \A c \in {2, 4, 6} : call.squares[c] = O
  /\ ~HasThree(call.squares, X)
  /\ \A l \in LineSet \ {{2, 4, 6}} : \E c \in l : call.squares[c] # O
  /\ call.ret = O

-----------------------------------------------------------------------------
(* Claims about the session, under Spec and SpecApi *)

Full(b) == \A i \in Cells : b[i] # null
Ran(op) == event.op = op
StartState == board = EMPTY_BOARD /\ xIsNext = TRUE /\ winner = null

\* C6: from every state resetGame leads to the empty board with X to move and
\* no winner, handleModeChange does the same and sets the mode, and the flush
\* of effects that follows leaves that state as it is, with no timer pending.
C6_ResetLeadsToStart ==
  [][/\ event'.op = "resetGame" => StartState' /\ mode' = mode
     /\ event'.op = "handleModeChange" => StartState' /\ mode' = event'.newMode
     /\ (event.op \in {"resetGame", "handleModeChange"} /\ event'.op = "effects")
          => StartState' /\ mode' = mode /\ pending' = {} /\ ~timeout'.set]_vars

\* a game the automated player won has just been reset
C6_Witness ==
  /\ Ran("resetGame") /\ event.from = O
  /\ mode = AI /\ StartState
  /\ pending # {}

\* a reset taken while the automated move was pending
C6_WitnessTimerPending ==
  /\ Ran("resetGame") /\ event.from = null
  /\ timeout.set /\ StartState

\* C8: the flush of effects after an accepted move sets the outcome to M when
\* the board holds a three-in-a-row of M (a full board included), to draw
\* exactly when the board is full with no three-in-a-row, and leaves it null
\* otherwise.
C8_OutcomeAfterMove ==
  [][(event.op = "handleMove" /\ event.accepted /\ event'.op = "effects")
       => /\ board' = board
          /\ \A m \in PLAYERS : HasThree(board, m) => winner' = m
          /\ (winner' = draw) <=> (Full(board) /\ NoThree(board))
          /\ (~Full(board) /\ NoThree(board)) => winner' = null]_vars

\* the ninth move completed a triple: a win, not a draw
C8_Witness ==
  /\ Ran("effects")
  /\ Full(board) /\ HasThree(board, X)
  /\ winner = X

\* C9: handleMove on an occupied cell or with the game over changes neither
\* board, turn, outcome nor mode; and once the game is over, board and turn
\* change only by resetGame or handleModeChange.
C9_RejectedMoveIsNoOp ==
  [][/\ (event'.op = "handleMove" /\ pending = {}
           /\ (winner # null \/ (event'.index \in Cells /\ board[event'.index] # null)))
          => UNCHANGED <<board, xIsNext, winner, mode>>
     /\ (winner # null /\ event'.op \notin {"resetGame", "handleModeChange"})
          => UNCHANGED <<board, xIsNext>>]_vars

\* handleMove was called on an empty cell of a finished game and refused
C9_Witness ==
  /\ Ran("handleMove") /\ ~event.accepted /\ event.by = "call"
  /\ winner \in PLAYERS
  /\ board[event.index] = null

\* the outcome the board determines
Outcome(b) ==
  IF HasThree(b, X) THEN X
  ELSE IF HasThree(b, O) THEN O
  ELSE IF Full(b) THEN draw
  ELSE null

-----------------------------------------------------------------------------
(* Claims about optimal play, under SpecSelfPlay and SpecSearch *)

\* C4: from the empty board with X to move and every move the one findBestMove
\* returns for the side to move, no position of the game holds a three-in-a-row
\* and the game stops only on the full board: it ends in a draw.
C4_SelfPlayEndsInDraw ==
  (call.fn = "selfPlay" /\ call.start = EMPTY_BOARD)
  => /\ NoThree(call.squares)
     /\ ToMove(call.squares) = call.toMove
     /\ call.last # NullMove => call.squares[call.last] = opponentOf(call.toMove)

\* the game from the empty board has reached the full board with no winner
C4_Witness ==
  /\ call.fn = "selfPlay" /\ call.start = EMPTY_BOARD
  /\ Full(call.squares) /\ NoThree(call.squares)

\* C5: minimax(emptyBoard, 0, true, aiPlayer) returns 0 for either aiPlayer.
C5_EmptyBoardIsADraw ==
  (/\ call.fn = "minimax"
   /\ call.squares = EMPTY_BOARD /\ call.depth = 0 /\ call.isMax)
  => call.ret = 0

C5_Witness ==
  /\ call.fn = "minimax"
  /\ call.squares = EMPTY_BOARD /\ call.depth = 0 /\ call.isMax /\ call.aiPlayer = O
  /\ call.ret = 0

-----------------------------------------------------------------------------
(* Claims about turns and cells, under Spec and SpecApi *)

\* C11: in every reachable state the board holds as many X as O or one X more,
\* and X is next exactly when the counts are equal; every accepted move places
\* the mark of the player to move and flips the turn, and the turn changes by
\* nothing else but resetGame / handleModeChange, which give it to X.
C11_TurnsAlternate ==
  /\ [](/\ Count(board, X) - Count(board, O) \in {0, 1}
        /\ xIsNext <=> (Count(board, X) = Count(board, O)))
  /\ [][/\ (event'.op = "handleMove" /\ event'.accepted)
             => /\ board'[event'.index] = currentPlayer
                /\ xIsNext' = ~xIsNext
        /\ xIsNext' # xIsNext
             => \/ event'.op = "handleMove" /\ event'.accepted
                \/ event'.op \in {"resetGame", "handleModeChange"} /\ xIsNext']_vars

\* the automated player has answered the second X: two marks each, X to move
C11_Witness ==
  /\ Ran("handleMove") /\ event.accepted /\ event.by = "timer"
  /\ Count(board, X) = 2 /\ Count(board, O) = 2
  /\ xIsNext


\* C12: every accepted move, by a click, by the automated player or by a call,
\* turns one empty cell into the mark of the player to move and leaves the
\* other 8 cells as they were; a cell that holds a mark changes only by
\* resetGame / handleModeChange.
C12_OneCellPerMove ==
  [][/\ (event'.op = "handleMove" /\ event'.accepted)
          => /\ board[event'.index] = null
             /\ board' = [board EXCEPT ![event'.index] = currentPlayer]
     /\ event'.op \notin {"resetGame", "handleModeChange"}
          => \A c \in Cells : board[c] # null => board'[c] = board[c]]_vars

\* the automated player has placed its third O
C12_Witness ==
  /\ Ran("handleMove") /\ event.accepted /\ event.by = "timer"
  /\ board[event.index] = O
  /\ Count(board, O) = 3 /\ Count(board, X) = 3


-----------------------------------------------------------------------------
(* Claims about the choice of the move, under SpecRate *)

\* the available moves of the rated board and the best of their values
Rated == DOMAIN call.vals
BestVal == CHOOSE v \in {call.vals[c] : c \in Rated} : \A c \in Rated : call.vals[c] <= v

\* C13: on every position of a game in progress with aiPlayer to move, the
\* move findBestMove returns, by a fast path or by the search, has the greatest
\* value minimax gives any empty cell.
C13_FastPathsAreOptimal ==
  (/\ Called("rateMoves")
   /\ InPlay(call.squares) /\ ToMove(call.squares) = call.aiPlayer)
  => /\ call.ret \in Rated
     /\ \A c \in Rated : call.vals[c] <= call.vals[call.ret]

\* the block was taken where every other move loses
C13_Witness ==
  /\ Called("rateMoves")
  /\ WinningCells(call.squares, call.aiPlayer) = {}
  /\ WinningCells(call.squares, opponentOf(call.aiPlayer)) = {call.ret}
  /\ \A c \in Rated \ {call.ret} : call.vals[c] < call.vals[call.ret]
  /\ NumEmpty(call.squares) = MaxRatedEmpty


-----------------------------------------------------------------------------
(* Claims about the engine's use of the array it is given, under SpecSearch *)

\* C15: when minimax or findBestMove returns, by the early return on a win, by
\* the early return on a block or after the search, each of the 9 cells of the
\* array holds what it held at the call.
C15_BoardRestored ==
  (Called("minimax") \/ Called("findBestMove")) => call.after = call.squares

\* findBestMove went through both fast-path loops and the search on three empty cells
C15_Witness ==
  /\ Called("findBestMove")
  /\ NumEmpty(call.squares) = 3
  /\ WinningCells(call.squares, call.aiPlayer) = {}
  /\ WinningCells(call.squares, opponentOf(call.aiPlayer)) = {}
  /\ call.squares[call.ret] = null
  /\ call.after = call.squares

-----------------------------------------------------------------------------
(* Claims about the automated move, under SpecLive and Spec *)

\* the game is in progress: no outcome is held and the board determines none
InProgress == winner = null /\ Outcome(board) = null

\* the timer callback has just placed the automated player's mark
AiMoved ==
  /\ Ran("handleMove") /\ event.by = "timer" /\ event.accepted
  /\ board[event.index] = O

\* C16: in AI mode with the game in progress and O to move, given that effects
\* run and the timer fires, O's mark is eventually placed by the timer callback
\* or the game is reset or the mode switched; and the cell the callback plays
\* is the one findBestMove returns for the board of that moment.
C16_AiEventuallyMoves ==
  /\ (mode = AI /\ InProgress /\ ~xIsNext)
       ~> (AiMoved \/ Ran("resetGame") \/ Ran("handleModeChange"))
  /\ [][(event'.op = "handleMove" /\ event'.by = "timer")
          => /\ timeout.closure.board = board
             /\ timeout.aiPlaysAs = O
             /\ board' = [board EXCEPT ![event'.index] = O]]_vars

\* the automated player has answered the first move of a game
C16_Witness ==
  /\ AiMoved
  /\ mode = AI /\ xIsNext
  /\ Count(board, O) = 1 /\ Count(board, X) = 1


\* C17: in AI mode no reachable state has X holding a three-in-a-row, and the
\* outcome is never X, whatever cells the human clicks and whenever the game is
\* restarted or the mode switched.
C17_AiNeverLoses ==
  mode = AI => (~HasThree(board, X) /\ winner # X)

\* a game against the automated player played to the full board
C17_Witness ==
  /\ mode = AI
  /\ Full(board) /\ ~HasThree(board, X)
  /\ winner = draw


\* the pending timer was scheduled for the state the session is in
TimerFresh ==
  /\ mode = AI /\ InProgress /\ ~xIsNext
  /\ timeout.closure.board = board
  /\ ~timeout.closure.gameOver /\ timeout.closure.currentPlayer = O

\* C18: a timer that can fire was scheduled for the present board, in AI mode,
\* with the game in progress and O to move; a click, reset, mode switch or
\* outcome change while a timer is pending leaves its cancellation to the
\* effects that run before anything else; the callback's move is accepted and
\* is the only source of an O in AI mode; and the callback never runs in
\* player-vs-player mode, on a finished game or on X's turn.
C18_TimerNeverStale ==
  /\ [](TimerEnabled => TimerFresh)
  /\ [][/\ (event'.op = "handleMove" /\ event'.by = "timer")
             => (TimerFresh /\ event'.accepted /\ ~timeout'.set /\ xIsNext')
        /\ (timeout.set /\ event'.op \in {"handleMove", "resetGame", "handleModeChange"}
              /\ <<mode', board', xIsNext'>> # <<mode, board, xIsNext>>)
             => "ai" \in pending'
        /\ (event'.op = "handleMove" /\ event'.accepted /\ mode = AI
              /\ board'[event'.index] = O)
             => event'.by = "timer"]_vars

\* the game was restarted while the automated move was pending: the timer of
\* the old board is still set and its cleanup is due
C18_Witness ==
  /\ Ran("resetGame")
  /\ timeout.set /\ timeout.closure.board # board
  /\ "ai" \in pending


-----------------------------------------------------------------------------
(* Claim about the boards a session reaches, under SpecApi *)

\* C19: on every board a session reaches, in either mode and whether moves
\* come from clicks, from direct calls of handleMove or from the timer, at
\* most one of the two marks holds a completed line.
C19_AtMostOneWinner == ~(HasThree(board, X) /\ HasThree(board, O))

\* O has completed a line in a two-player game and a later move on an empty
\* cell next to an X pair was turned down
C19_Witness ==
  /\ Ran("handleMove") /\ ~event.accepted
  /\ mode = PVP /\ winner = O
  /\ HasThree(board, O)
  /\ board[event.index] = null
  /\ event.index \in WinningCells(board, X)


-----------------------------------------------------------------------------
(* Claim about the values minimax returns, under SpecScore *)

\* m alone holds a completed line on b
WonBy(b, m) == HasThree(b, m) /\ ~HasThree(b, opponentOf(m))

\* C20: called at depth d on a board won by aiPlayer minimax returns 10 - d, on
\* a board won by the opponent d - 10, on a full board without a winner 0; in
\* every call that descends from findBestMove the depth is in 0..8 and at most
\* 8 less the number of empty cells, the value is in -10..10, it is positive
\* only when the searched line ends on a board won by aiPlayer (and is then 10
\* less the depth of that board), negative only when it ends on a board won by
\* the opponent (the depth of that board less 10), and 0 only when it ends on
\* a full board without a winner.
C20_ScoresKeepSign ==
  /\ Called("score") =>
       /\ WonBy(call.squares, call.aiPlayer) => call.ret = 10 - call.depth
       /\ WonBy(call.squares, opponentOf(call.aiPlayer)) => call.ret = call.depth - 10
       /\ (Full(call.squares) /\ NoThree(call.squares)) => call.ret = 0
  /\ (call.fn \in {"frame", "score"} /\ call.from = "findBestMove") =>
       /\ call.depth \in 0..8
       /\ call.depth + NumEmpty(call.squares) <= 8
  /\ (Called("score") /\ call.from = "findBestMove") =>
       /\ call.ret \in -10..10
       /\ call.leafDepth \in call.depth..8
       /\ call.ret > 0 => /\ WonBy(call.leaf, call.aiPlayer)
                          /\ call.ret = 10 - call.leafDepth
       /\ call.ret < 0 => /\ WonBy(call.leaf, opponentOf(call.aiPlayer))
                          /\ call.ret = call.leafDepth - 10
       /\ call.ret = 0 => (Full(call.leaf) /\ NoThree(call.leaf))

\* a search from findBestMove, four moves deep with four cells empty, that the
\* opponent wins three moves further down
C20_Witness ==
  /\ Called("score") /\ call.from = "findBestMove"
  /\ call.depth = 4 /\ NumEmpty(call.squares) = 4
  /\ call.ret = -3 /\ call.leafDepth = 7
  /\ WonBy(call.leaf, opponentOf(call.aiPlayer))

=============================================================================
